---- MODULE Spec2Model ----
(***************************************************************************)
(* The chunked-transcription pipeline of whisper-cli (src/main.go, with    *)
(* the whisper package of src/unnamed/part_002).                           *)
(*                                                                         *)
(* Time values (float64 seconds in the program) are integers counting      *)
(* milliseconds; the program only adds them, so the sums are exact.        *)
(* One process run is the function main; its steps are split at the calls   *)
(* that leave the process (file system, ffmpeg/ffprobe, the service).      *)
(* The disk (chunk files, cache artifacts) outlives a run; a later run of   *)
(* the program over the same input finds what the earlier runs left.       *)
(***************************************************************************)
EXTENDS Integers, Sequences, FiniteSets, TLC

\* ---------------------------------------------------------------- bounds

\* Chunk files may exist at the indices 0 .. MaxChunks-1.
MaxChunks == 2

\* Number of times the program is run over the same output directory.
MaxRuns == 2

\* Timestamps up to MaxHours hours (and one of 100 hours) are formatted.
MaxHours == 2

Chunks == 0 .. (MaxChunks - 1)

\* --------------------------------------------------------------- segments

\* whisper.Segment
Seg(s, e, t) == [start |-> s, end |-> e, text |-> t]

\* Durations ffprobe may report for a chunk: 0 s, 45.3 s, 600.0 s.
Durations == {0, 45300, 600000}

\* What the Transcription Service may return for a chunk (timestamps
\* relative to the chunk).
Results ==
  << << Seg(0, 5000, << "hello" >>) >>,
     << Seg(0, 3000, << "world" >>) >>,
     << Seg(4000, 5000, << "b" >>), Seg(0, 3000, << "a" >>) >>,
     << Seg(0, 3000, << "a" >>), Seg(3000, 5000, << "b", "\n", "c" >>) >> >>

\* The service is a fixed function of the chunk: which of the Results it
\* answers for chunk k, under the assignment chosen for this input. Chunks
\* 0, 1, ... get hello, world, ... or the unsorted answer first or the
\* two-segment answer first.
Services == {0, 2, 3}
Answer(service, k) == Results[((k + service) % Len(Results)) + 1]

\* A cache artifact left in the output directory by something else than the
\* modelled runs (an older run over another input).
ForeignSegments == << Seg(7000, 9000, << "old" >>) >>

\* File contents: no file, bytes that do not parse, or the JSON of a
\* segment list.
NoFile == [kind |-> "none", body |-> << >>]
Garbage == [kind |-> "garbage", body |-> << >>]

\* json.MarshalIndent of a []Segment: float64 and string fields survive the
\* round trip through encoding/json, so the file holds the list itself.
Marshal(segs) == [kind |-> "json", body |-> segs]

\* json.Unmarshal succeeds exactly on a file that holds a JSON segment list.
UnmarshalOk(file) == file.kind = "json"
Unmarshal(file) == file.body

ShiftBy(seg, offset) ==
  [seg EXCEPT !.start = @ + offset, !.end = @ + offset]

\* TranscribeAudio with only Start shifted.
TranscribeAudio_StartOnly(result, offset) ==
  [j \in 1 .. Len(result) |-> [result[j] EXCEPT !.start = @ + offset]]

\* TranscribeAudio on success: the service's segments with offset added to
\* start and end.
TranscribeAudio(result, offset) ==
  [j \in 1 .. Len(result) |-> ShiftBy(result[j], offset)]

\* ------------------------------------------------------------- rendering

\* time.Second, in the model's unit of time.
TicksPerSecond == 1000

\* The decimal digits of n.
RECURSIVE Digits(_)
Digits(n) == IF n < 10 THEN << n >> ELSE Append(Digits(n \div 10), n % 10)

\* fmt's %02d for n >= 0.
Pad2(n) == IF n < 10 THEN << 0, n >> ELSE Digits(n)

\* formatTimestamp with the seconds rounded to the nearest whole second.
formatTimestamp_Rounded(t) ==
  LET whole == (t + (TicksPerSecond \div 2)) \div TicksPerSecond
  IN  [hh |-> Pad2(whole \div 3600), mm |-> Pad2((whole \div 60) % 60),
       ss |-> Pad2(whole % 60)]

\* formatTimestamp: the Duration's whole hours, whole minutes mod 60 and
\* whole seconds mod 60, each printed with %02d.
formatTimestamp(t) ==
  LET hours == t \div (3600 * TicksPerSecond)
      minutes == (t \div (60 * TicksPerSecond)) % 60
      secs == (t \div TicksPerSecond) % 60
  IN  [hh |-> Pad2(hours), mm |-> Pad2(minutes), ss |-> Pad2(secs)]

\* A continuation line carries no timestamps.
NoStamp == [hh |-> << >>, mm |-> << >>, ss |-> << >>]

\* The lines that `pieces`, followed by a line break, fill in a text file;
\* cur is the line begun so far.
RECURSIVE SplitAt(_, _)
SplitAt(pieces, cur) ==
  IF pieces = << >> THEN << cur >>
  ELSE IF Head(pieces) = "\n" THEN << cur >> \o SplitAt(Tail(pieces), << >>)
  ELSE SplitAt(Tail(pieces), Append(cur, Head(pieces)))

LinesOf(text) == SplitAt(text, << >>)

\* transcription.txt as its lines: every segment's text and a line break.
RECURSIVE TextLines(_)
TextLines(segs) ==
  IF segs = << >> THEN << >>
  ELSE LinesOf(Head(segs).text) \o TextLines(Tail(segs))

\* The lines of one segment in transcription_with_timestamps.txt:
\* "[from - to] text" and a line break.
StampedSegment(seg) ==
  LET parts == LinesOf(seg.text)
  IN  [j \in 1 .. Len(parts) |->
         [from |-> IF j = 1 THEN formatTimestamp(seg.start) ELSE NoStamp,
          to |-> IF j = 1 THEN formatTimestamp(seg.end) ELSE NoStamp,
          text |-> parts[j]]]

\* transcription_with_timestamps.txt as its lines.
RECURSIVE StampedLines(_)
StampedLines(segs) ==
  IF segs = << >> THEN << >>
  ELSE StampedSegment(Head(segs)) \o StampedLines(Tail(segs))

OutputNames == {"json", "txt", "ts"}

\* ------------------------------------------------------------------ state

VARIABLES
  run,          \* number of the current run of the program
  pc,           \* position of the process in main
  inputFile,    \* main's inputFile after config and flag
  chunkFiles,   \* indices whose chunk file exists in the output directory
  everSplit,    \* ffmpeg has split the input at least once
  durOf,        \* duration ffprobe reports per chunk, -1 while not yet seen
  service,      \* the service's assignment of answers to chunks
  cache,        \* the cache artifact of each chunk
  own,          \* chunks whose artifact was written by one of these runs
  i,            \* loop index
  offset,       \* main's offset
  dur,          \* main's dur
  segments,     \* main's segments (result of the closure)
  err,          \* main's err after the closure
  allSegments,  \* main's allSegments
  obtained,     \* how this run got each chunk's segments: "hit", "live", "failed", or "none" so far
  written,      \* what this run wrote to each of the three output files
  log           \* the external operations of this run, in order

vars ==
  << run, pc, inputFile, chunkFiles, everSplit, durOf, service, cache, own,
     i, offset, dur, segments, err, allSegments, obtained, written, log >>

disk == << chunkFiles, everSplit, durOf, service, cache, own >>
locals == << i, offset, dur, segments, err, allSegments, obtained >>

Op(name, k, res, arg) == [op |-> name, k |-> k, res |-> res, arg |-> arg]

Logged(name, k, res, arg) == log' = Append(log, Op(name, k, res, arg))

\* A fresh process: main's variables before the loop.
FreshProcess ==
  /\ inputFile' = ""
  /\ i' = 0
  /\ offset' = 0
  /\ dur' = 0
  /\ segments' = << >>
  /\ err' = FALSE
  /\ allSegments' = << >>
  /\ obtained' = [k \in Chunks |-> "none"]

\* The output directory before the first run: a chunk has no artifact or a
\* foreign one. Artifacts that do not parse are what a failed or
\* interrupted write of these runs leaves behind.
InitialCaches ==
  [Chunks -> {NoFile, Marshal(ForeignSegments)}]

Init ==
  /\ run = 1
  /\ pc = "load"
  /\ inputFile = ""
  /\ chunkFiles = {}
  /\ everSplit = FALSE
  /\ durOf = [k \in Chunks |-> -1]
  /\ service \in Services
  /\ cache \in InitialCaches
  /\ own = {}
  /\ i = 0
  /\ offset = 0
  /\ dur = 0
  /\ segments = << >>
  /\ err = FALSE
  /\ allSegments = << >>
  /\ obtained = [k \in Chunks |-> "none"]
  /\ written = [f \in OutputNames |-> NoFile]
  /\ log = << >>

\* ---------------------------------------------------------------- actions

\* main, lines 29-39: the configuration is loaded and the flag applied.
LoadConfig ==
  /\ pc = "load"
  /\ \E ok \in BOOLEAN, configInput \in {"", "rec.m4a"}, inputFlag \in {"", "rec.m4a"} :
       IF ok
         THEN /\ inputFile' = (IF inputFlag # "" THEN inputFlag ELSE configInput)
              /\ pc' = "checkInput"
         ELSE inputFile' = inputFile /\ pc' = "exit"
  /\ UNCHANGED << run, disk, i, offset, dur, segments, err, allSegments, obtained, written, log >>

\* CheckInput without the test for an empty inputFile.
CheckInput_NoCheck ==
  /\ pc = "checkInput"
  /\ pc' = "mkdir"
  /\ UNCHANGED << run, inputFile, disk, locals, written, log >>

\* main, lines 41-43.
CheckInput ==
  /\ pc = "checkInput"
  /\ pc' = IF inputFile = "" THEN "fatal" ELSE "mkdir"
  /\ UNCHANGED << run, inputFile, disk, locals, written, log >>

\* main, lines 46-51.
MakeOutputDir ==
  /\ pc = "mkdir"
  /\ \E ok \in BOOLEAN :
       /\ Logged("mkdir", -1, IF ok THEN "ok" ELSE "fail", 0)
       /\ pc' = IF ok THEN "split" ELSE "exit"
  /\ UNCHANGED << run, inputFile, disk, locals, written >>

\* Split with the error of SplitAudioFile only reported: main goes on to
\* the loop.
Split_FailIgnored ==
  /\ pc = "split"
  /\ \E ok \in BOOLEAN, files \in SUBSET Chunks :
       /\ everSplit => files = chunkFiles
       /\ ~ok => files = chunkFiles
       /\ Logged("split", -1, IF ok THEN "ok" ELSE "fail", 0)
       /\ chunkFiles' = files
       /\ everSplit' = (everSplit \/ ok)
       /\ pc' = "stat"
  /\ UNCHANGED << run, inputFile, durOf, service, cache, own, locals, written >>

\* main, lines 56-61: whisper.SplitAudioFile. The chunk set of an input is
\* fixed: a later split of the same input leaves the same files.
Split ==
  /\ pc = "split"
  /\ \E ok \in BOOLEAN, files \in SUBSET Chunks :
       /\ everSplit => files = chunkFiles
       /\ ~ok => files = chunkFiles
       /\ Logged("split", -1, IF ok THEN "ok" ELSE "fail", 0)
       /\ chunkFiles' = files
       /\ everSplit' = (everSplit \/ ok)
       /\ pc' = IF ok THEN "stat" ELSE "exit"
  /\ UNCHANGED << run, inputFile, durOf, service, cache, own, locals, written >>

\* StatChunk with `continue` written for `break`: a missing index is
\* skipped (up to the last index a chunk file can have).
StatChunk_Continue ==
  /\ pc = "stat"
  /\ Logged("stat", i, IF i \in chunkFiles THEN "ok" ELSE "missing", 0)
  /\ pc' = IF i \in chunkFiles THEN "probe" ELSE IF i < MaxChunks THEN "stat" ELSE "json"
  /\ i' = IF i \notin chunkFiles /\ i < MaxChunks THEN i + 1 ELSE i
  /\ UNCHANGED << run, inputFile, disk, offset, dur, segments, err, allSegments, obtained, written >>

\* main, lines 70-73: the loop head.
StatChunk ==
  /\ pc = "stat"
  /\ Logged("stat", i, IF i \in chunkFiles THEN "ok" ELSE "missing", 0)
  /\ pc' = IF i \in chunkFiles THEN "probe" ELSE "json"
  /\ UNCHANGED << run, inputFile, disk, locals, written >>

\* Probe with `return` written for `break` on a failure.
Probe_FailReturns ==
  /\ pc = "probe"
  /\ \E ok \in BOOLEAN, d \in Durations :
       /\ durOf[i] # -1 => d = durOf[i]
       /\ IF ok
            THEN /\ dur' = d
                 /\ durOf' = [durOf EXCEPT ![i] = d]
                 /\ Logged("probe", i, "ok", d)
                 /\ pc' = "read"
            ELSE /\ d = (IF durOf[i] # -1 THEN durOf[i] ELSE 0)
                 /\ UNCHANGED << dur, durOf >>
                 /\ Logged("probe", i, "fail", 0)
                 /\ pc' = "exit"
  /\ UNCHANGED << run, inputFile, chunkFiles, everSplit, service, cache, own,
                  i, offset, segments, err, allSegments, obtained, written >>

\* main, lines 76-80: whisper.GetDuration.
Probe ==
  /\ pc = "probe"
  /\ \E ok \in BOOLEAN, d \in Durations :
       /\ durOf[i] # -1 => d = durOf[i]
       /\ IF ok
            THEN /\ dur' = d
                 /\ durOf' = [durOf EXCEPT ![i] = d]
                 /\ Logged("probe", i, "ok", d)
                 /\ pc' = "read"
            ELSE /\ d = (IF durOf[i] # -1 THEN durOf[i] ELSE 0)
                 /\ UNCHANGED << dur, durOf >>
                 /\ Logged("probe", i, "fail", 0)
                 /\ pc' = "json"
  /\ UNCHANGED << run, inputFile, chunkFiles, everSplit, service, cache, own,
                  i, offset, segments, err, allSegments, obtained, written >>

\* ReadCache with the result of json.Unmarshal ignored: an unparsable
\* artifact is returned as an empty segment list.
ReadCache_IgnoreParseError ==
  /\ pc = "read"
  /\ IF cache[i] # NoFile
       THEN /\ segments' = Unmarshal(cache[i])
            /\ err' = FALSE
            /\ Logged("read", i, IF UnmarshalOk(cache[i]) THEN "hit" ELSE "unparsable", offset)
            /\ obtained' = [obtained EXCEPT ![i] = "hit"]
            /\ pc' = "append"
       ELSE /\ UNCHANGED << segments, err, obtained >>
            /\ Logged("read", i, "absent", offset)
            /\ pc' = "transcribe"
  /\ UNCHANGED << run, inputFile, disk, i, offset, dur, allSegments, written >>

\* ReadCache with the current offset added again to the cached segments.
ReadCache_Reshift ==
  /\ pc = "read"
  /\ IF UnmarshalOk(cache[i])
       THEN /\ segments' = [j \in 1 .. Len(Unmarshal(cache[i])) |->
                              ShiftBy(Unmarshal(cache[i])[j], offset)]
            /\ err' = FALSE
            /\ Logged("read", i, "hit", offset)
            /\ obtained' = [obtained EXCEPT ![i] = "hit"]
            /\ pc' = "append"
       ELSE /\ UNCHANGED << segments, err, obtained >>
            /\ Logged("read", i, IF cache[i] = NoFile THEN "absent" ELSE "unparsable", offset)
            /\ pc' = "transcribe"
  /\ UNCHANGED << run, inputFile, disk, i, offset, dur, allSegments, written >>

\* ReadCache without the lookup: every chunk is transcribed anew.
ReadCache_NoLookup ==
  /\ pc = "read"
  /\ UNCHANGED << segments, err, obtained >>
  /\ Logged("read", i, "absent", offset)
  /\ pc' = "transcribe"
  /\ UNCHANGED << run, inputFile, disk, i, offset, dur, allSegments, written >>

\* main, lines 85-94: the closure's cache lookup.
ReadCache ==
  /\ pc = "read"
  /\ IF UnmarshalOk(cache[i])
       THEN /\ segments' = Unmarshal(cache[i])
            /\ err' = FALSE
            /\ Logged("read", i, "hit", offset)
            /\ obtained' = [obtained EXCEPT ![i] = "hit"]
            /\ pc' = "append"
       ELSE /\ UNCHANGED << segments, err, obtained >>
            /\ Logged("read", i, IF cache[i] = NoFile THEN "absent" ELSE "unparsable", offset)
            /\ pc' = "transcribe"
  /\ UNCHANGED << run, inputFile, disk, i, offset, dur, allSegments, written >>

\* Transcribe with the closure going on to the save after a failed call.
Transcribe_FailSaves ==
  /\ pc = "transcribe"
  /\ \E ok \in BOOLEAN :
       IF ok
         THEN /\ segments' = TranscribeAudio(Answer(service, i), offset)
              /\ err' = FALSE
              /\ Logged("transcribe", i, "ok", offset)
              /\ obtained' = [obtained EXCEPT ![i] = "live"]
              /\ pc' = "save"
         ELSE /\ segments' = << >>
              /\ err' = TRUE
              /\ Logged("transcribe", i, "fail", offset)
              /\ obtained' = [obtained EXCEPT ![i] = "failed"]
              /\ pc' = "save"
  /\ UNCHANGED << run, inputFile, disk, i, offset, dur, allSegments, written >>

\* main, lines 97-100: whisper.TranscribeAudio with the current offset. On
\* an error the closure returns (nil, err).
Transcribe ==
  /\ pc = "transcribe"
  /\ \E ok \in BOOLEAN :
       IF ok
         THEN /\ segments' = TranscribeAudio(Answer(service, i), offset)
              /\ err' = FALSE
              /\ Logged("transcribe", i, "ok", offset)
              /\ obtained' = [obtained EXCEPT ![i] = "live"]
              /\ pc' = "save"
         ELSE /\ segments' = << >>
              /\ err' = TRUE
              /\ Logged("transcribe", i, "fail", offset)
              /\ obtained' = [obtained EXCEPT ![i] = "failed"]
              /\ pc' = "append"
  /\ UNCHANGED << run, inputFile, disk, i, offset, dur, allSegments, written >>

\* SaveCache with a failed write returned as the closure's error.
SaveCache_FailReturnsError ==
  /\ pc = "save"
  /\ \E ok \in BOOLEAN, left \in {cache[i], Garbage} :
       IF ok
         THEN /\ left = cache[i]
              /\ cache' = [cache EXCEPT ![i] = Marshal(segments)]
              /\ own' = own \cup {i}
              /\ UNCHANGED << segments, err >>
              /\ Logged("save", i, "ok", 0)
         ELSE /\ cache' = [cache EXCEPT ![i] = left]
              /\ own' = own
              /\ segments' = << >>
              /\ err' = TRUE
              /\ Logged("save", i, "fail", 0)
  /\ pc' = "append"
  /\ UNCHANGED << run, inputFile, chunkFiles, everSplit, durOf, service,
                  i, offset, dur, allSegments, obtained, written >>

\* SaveCache persisting the service's chunk-relative segments instead of
\* the shifted ones.
SaveCache_Unshifted ==
  /\ pc = "save"
  /\ \E ok \in BOOLEAN, left \in {cache[i], Garbage} :
       IF ok
         THEN /\ left = cache[i]
              /\ cache' = [cache EXCEPT ![i] = Marshal(Answer(service, i))]
              /\ own' = own \cup {i}
              /\ Logged("save", i, "ok", 0)
         ELSE /\ cache' = [cache EXCEPT ![i] = left]
              /\ own' = own
              /\ Logged("save", i, "fail", 0)
  /\ pc' = "append"
  /\ UNCHANGED << run, inputFile, chunkFiles, everSplit, durOf, service,
                  locals, written >>

\* main, lines 103-112: the closure persists the shifted segments; a
\* failure is a warning. A failed os.WriteFile leaves the old file or a
\* truncated one.
SaveCache ==
  /\ pc = "save"
  /\ \E ok \in BOOLEAN, left \in {cache[i], Garbage} :
       IF ok
         THEN /\ left = cache[i]
              /\ cache' = [cache EXCEPT ![i] = Marshal(segments)]
              /\ own' = own \cup {i}
              /\ Logged("save", i, "ok", 0)
         ELSE /\ cache' = [cache EXCEPT ![i] = left]
              /\ own' = own
              /\ Logged("save", i, "fail", 0)
  /\ pc' = "append"
  /\ UNCHANGED << run, inputFile, chunkFiles, everSplit, durOf, service,
                  locals, written >>

\* AppendSegments with the offset advanced only for a chunk that was not
\* served from the cache.
AppendSegments_AdvanceOnLiveOnly ==
  /\ pc = "append"
  /\ allSegments' = allSegments \o segments
  /\ offset' = IF log[Len(log)].op = "read" THEN offset ELSE offset + dur
  /\ i' = i + 1
  /\ pc' = "stat"
  /\ UNCHANGED << run, inputFile, disk, dur, segments, err, obtained, written, log >>

\* AppendSegments with `offset = dur` written for `offset += dur`.
AppendSegments_AssignOffset ==
  /\ pc = "append"
  /\ allSegments' = allSegments \o segments
  /\ offset' = dur
  /\ i' = i + 1
  /\ pc' = "stat"
  /\ UNCHANGED << run, inputFile, disk, dur, segments, err, obtained, written, log >>

\* AppendSegments with the chunk's segments put in front of the Transcript.
AppendSegments_Prepend ==
  /\ pc = "append"
  /\ allSegments' = segments \o allSegments
  /\ offset' = offset + dur
  /\ i' = i + 1
  /\ pc' = "stat"
  /\ UNCHANGED << run, inputFile, disk, dur, segments, err, obtained, written, log >>

\* AppendSegments in a loop without the i++.
AppendSegments_NoIncrement ==
  /\ pc = "append"
  /\ allSegments' = allSegments \o segments
  /\ offset' = offset + dur
  /\ i' = i
  /\ pc' = "stat"
  /\ UNCHANGED << run, inputFile, disk, dur, segments, err, obtained, written, log >>

\* main, lines 113-117: the closure's result is appended whatever err is,
\* the offset advances and the loop goes on.
AppendSegments ==
  /\ pc = "append"
  /\ allSegments' = allSegments \o segments
  /\ offset' = offset + dur
  /\ i' = i + 1
  /\ pc' = "stat"
  /\ UNCHANGED << run, inputFile, disk, dur, segments, err, obtained, written, log >>

\* WriteOutput with a failed write only reported: main goes on to the next
\* file.
WriteOutput_ContinueOnFail(at, name, body, next) ==
  /\ pc = at
  /\ \E ok \in BOOLEAN :
       /\ written' = [written EXCEPT ![name] = IF ok THEN body ELSE Garbage]
       /\ Logged("write", -1, IF ok THEN name ELSE "fail", 0)
       /\ pc' = next
  /\ UNCHANGED << run, inputFile, disk, locals >>

\* One of the three os.WriteFile calls of lines 121-161.
WriteOutput(at, name, body, next) ==
  /\ pc = at
  /\ \E ok \in BOOLEAN :
       /\ written' = [written EXCEPT ![name] = IF ok THEN body ELSE Garbage]
       /\ Logged("write", -1, IF ok THEN name ELSE "fail", 0)
       /\ pc' = IF ok THEN next ELSE "exit"
  /\ UNCHANGED << run, inputFile, disk, locals >>

\* main, lines 121-130.
WriteJson == WriteOutput("json", "json", Marshal(allSegments), "txt")

\* main, lines 133-143.
WriteText ==
  WriteOutput("txt", "txt", [kind |-> "text", body |-> TextLines(allSegments)], "ts")

\* main, lines 146-161.
WriteStamped ==
  WriteOutput("ts", "ts", [kind |-> "text", body |-> StampedLines(allSegments)], "done")

Running == pc \notin {"done", "exit", "fatal", "killed"}

\* The process is ended from outside (the operator interrupts it, the
\* machine stops); its memory is gone, what it wrote stays on disk. An
\* interrupt during the cache write may leave a truncated artifact.
Interrupt ==
  /\ Running
  /\ pc' = "killed"
  /\ \E left \in {cache[IF pc = "save" THEN i ELSE 0], Garbage} :
       /\ pc # "save" => left = cache[0]
       /\ cache' = IF pc = "save" THEN [cache EXCEPT ![i] = left] ELSE cache
  /\ FreshProcess
  /\ log' = << >>
  /\ UNCHANGED << run, chunkFiles, everSplit, durOf, service, own, written >>

\* The program is started again over the same input.
Restart ==
  /\ ~Running
  /\ run < MaxRuns
  /\ run' = run + 1
  /\ pc' = "load"
  /\ FreshProcess
  /\ written' = [f \in OutputNames |-> NoFile]
  /\ log' = << >>
  /\ UNCHANGED disk

\* The next statement of main.
Step ==
  \/ LoadConfig
  \/ CheckInput
  \/ MakeOutputDir
  \/ Split
  \/ StatChunk
  \/ Probe
  \/ ReadCache
  \/ Transcribe
  \/ SaveCache
  \/ AppendSegments
  \/ WriteJson
  \/ WriteText
  \/ WriteStamped

Next ==
  \/ Step
  \/ Interrupt
  \/ Restart

Spec == Init /\ [][Next]_vars

\* One run of the program that nobody interrupts and in which every call
\* to the outside returns: the process always goes on to its next
\* statement.
SpecRun == Init /\ [][Step]_vars /\ WF_vars(Step)

\* --------------------------------------------- the renderer on its own

\* Seconds values to format: on and just below the boundaries of seconds,
\* minutes and hours, among them 0, 59.999 and 3725.9.
FormatInputs ==
  { ((h * 60 + m) * 60 + sec) * TicksPerSecond + frac :
      h \in (0 .. MaxHours) \cup {100}, m \in {0, 2, 59}, sec \in {0, 5, 59},
      frac \in {0, 900, 999} }

\* main at line 146: one chunk of 600 s, its segment loaded from an
\* artifact found in the output directory, transcription.json and
\* transcription.txt written.
InitFormat ==
  \E t \in FormatInputs :
    LET segs == << Seg(t, t + 1500, << "x" >>) >>
    IN  /\ run = 1
        /\ pc = "ts"
        /\ inputFile = "rec.m4a"
        /\ chunkFiles = {0}
        /\ everSplit = TRUE
        /\ durOf = [k \in Chunks |-> IF k = 0 THEN 600000 ELSE -1]
        /\ service \in Services
        /\ cache = [k \in Chunks |-> IF k = 0 THEN Marshal(segs) ELSE NoFile]
        /\ own = {}
        /\ i = 1
        /\ offset = 600000
        /\ dur = 600000
        /\ segments = segs
        /\ err = FALSE
        /\ allSegments = segs
        /\ obtained = [k \in Chunks |-> IF k = 0 THEN "hit" ELSE "none"]
        /\ written = [f \in OutputNames |->
                         CASE f = "json" -> Marshal(segs)
                           [] f = "txt" -> [kind |-> "text", body |-> TextLines(segs)]
                           [] OTHER -> NoFile]
        /\ log = << Op("mkdir", -1, "ok", 0), Op("split", -1, "ok", 0),
                    Op("stat", 0, "ok", 0), Op("probe", 0, "ok", 600000),
                    Op("read", 0, "hit", 0), Op("stat", 1, "missing", 0),
                    Op("write", -1, "json", 0), Op("write", -1, "txt", 0) >>

NextFormat == WriteStamped

SpecFormat == InitFormat /\ [][NextFormat]_vars

\* ------------------------------------------------------- reading the log

Entries == 1 .. Len(log)

Has(name, k, res) ==
  \E n \in Entries : log[n].op = name /\ log[n].k = k /\ log[n].res = res

\* The process still holds main's variables.
Alive == pc # "killed"

\* The loop is over and main is rendering, or has rendered.
Rendering == pc \in {"json", "txt", "ts", "done"}

\* d0 + ... + d(k-1) of the probed durations.
RECURSIVE PrefixSum(_)
PrefixSum(k) == IF k = 0 THEN 0 ELSE PrefixSum(k - 1) + durOf[k - 1]

\* ------------------------------------------------------------------ C1

\* C1: a failed Transcription Service call ends the process at once: after
\* it no chunk with a higher index is probed or transcribed and no output
\* file is written in that run.
C1_TranscriptionFailureIsFatal ==
  \A n \in Entries :
    (log[n].op = "transcribe" /\ log[n].res = "fail") =>
      /\ \A m \in Entries :
           m > n => ~(log[m].op \in {"probe", "transcribe"} /\ log[m].k > log[n].k)
      /\ \A m \in Entries : m > n => log[m].op # "write"
      /\ \A f \in OutputNames : written[f] = NoFile

\* ------------------------------------------------------------------ C2

\* C2: the offset is 0 before chunk 0, and whenever chunk k is reached the
\* offset in effect (at the loop head, when the cache is read and when the
\* service is called) is the sum of the probed durations of the chunks
\* below k, whether those were cache hits, live calls or failed calls.
C2_OffsetIsPrefixSum ==
  /\ (Alive /\ pc \in {"stat", "probe", "read", "transcribe", "save", "append"}) =>
       offset = PrefixSum(i)
  /\ (Alive /\ i = 0) => offset = 0
  /\ \A n \in Entries :
       log[n].op \in {"read", "transcribe"} => log[n].arg = PrefixSum(log[n].k)

\* Chunk 1 is transcribed live at offset 600.0 s after chunk 0 was a cache hit.
C2_Witness ==
  /\ Has("read", 0, "hit")
  /\ \E n \in Entries :
       log[n].op = "transcribe" /\ log[n].k = 1 /\ log[n].res = "ok" /\ log[n].arg = 600000

\* ------------------------------------------- what each chunk contributes

\* The service's answer for chunk k with the base offset of chunk k added
\* to start and end, the text kept.
ShiftedAnswer(k) ==
  LET answer == Answer(service, k)
  IN  [j \in 1 .. Len(answer) |->
         Seg(answer[j].start + PrefixSum(k), answer[j].end + PrefixSum(k),
             answer[j].text)]

\* The segments obtained for chunk k in this run: the artifact's content
\* on a cache hit, the shifted answer after a live call, nothing after a
\* failed call.
Contribution(k) ==
  CASE obtained[k] = "hit" -> cache[k].body
    [] obtained[k] = "live" -> ShiftedAnswer(k)
    [] OTHER -> << >>

RECURSIVE Flatten(_)
Flatten(n) == IF n = 0 THEN << >> ELSE Flatten(n - 1) \o Contribution(n - 1)

\* The number of segments the chunks below k gave.
RECURSIVE SizeBefore(_)
SizeBefore(k) == IF k = 0 THEN 0 ELSE SizeBefore(k - 1) + Len(Contribution(k - 1))

\* The part of the Transcript that chunk k occupies.
Slice(k) ==
  LET from == SizeBefore(k)
  IN  SubSeq(allSegments, from + 1, from + Len(Contribution(k)))

\* The Transcript of one uninterrupted run over chunks 0 .. n-1 that starts
\* with an empty cache and in which every call succeeds.
RECURSIVE FullTranscript(_)
FullTranscript(n) ==
  IF n = 0 THEN << >> ELSE FullTranscript(n - 1) \o ShiftedAnswer(n - 1)

NoFailure ==
  /\ \A k \in Chunks : obtained[k] # "failed"
  /\ \A n \in Entries : ~(log[n].op = "probe" /\ log[n].res = "fail")

\* Every artifact this run loaded was written by an earlier run over the
\* same chunks.
HitsAreOwn == \A k \in Chunks : obtained[k] = "hit" => k \in own

\* ------------------------------------------------------------------ C3

\* C3: a run whose cache hits are all on artifacts left by an earlier
\* (interrupted) run over the same chunks, and whose remaining chunks are
\* transcribed live without failure, ends with the same Transcript as one
\* uninterrupted run from an empty cache.
C3_ResumeCorrect ==
  (Rendering /\ NoFailure /\ HitsAreOwn) => allSegments = FullTranscript(i)

\* The second run loads chunk 0 from the first run's artifact, makes its
\* first live call at chunk 1 and finishes.
C3_Witness ==
  /\ run = 2
  /\ pc = "done"
  /\ NoFailure
  /\ Has("read", 0, "hit") /\ 0 \in own
  /\ Has("transcribe", 1, "ok")
  /\ durOf[0] > 0
  /\ Len(allSegments) >= 2

\* ------------------------------------------------------------------ C4

\* C4: for a chunk whose artifact parses, the service is not invoked, and
\* what the closure returns and what the Transcript receives for the chunk
\* is the artifact's content as it is, whatever the offset.
C4_CacheHit ==
  \A k \in Chunks :
    (Alive /\ Has("read", k, "hit")) =>
      /\ obtained[k] = "hit"
      /\ ~Has("transcribe", k, "ok") /\ ~Has("transcribe", k, "fail")
      /\ (pc = "append" /\ i = k) => segments = cache[k].body
      /\ i > k => Slice(k) = cache[k].body

\* Chunk 1 was served from an artifact at offset 600.0 s and appended.
C4_Witness ==
  /\ Alive
  /\ i = 2
  /\ \E n \in Entries :
       log[n].op = "read" /\ log[n].k = 1 /\ log[n].res = "hit" /\ log[n].arg = 600000
  /\ Len(allSegments) >= 1
  /\ allSegments[Len(allSegments)] = ForeignSegments[1]

\* ------------------------------------------------------------------ C5

SortedByStart(segs) ==
  \A a, b \in 1 .. Len(segs) : a < b => segs[a].start <= segs[b].start

Reached == {k \in Chunks : k <= i}

AnswersSorted == \A k \in Reached : SortedByStart(Answer(service, k))

\* No segment starts before its chunk or after the chunk's probed duration.
StartsWithinChunk ==
  \A k \in Reached :
    durOf[k] # -1 =>
      \A j \in 1 .. Len(Answer(service, k)) :
        /\ Answer(service, k)[j].start >= 0
        /\ Answer(service, k)[j].start <= durOf[k]

\* C5 as stated: with every chunk's result non-decreasing in start (and
\* durations non-negative, as they always are here), the Transcript is
\* non-decreasing in start in every state.
C5_SortedGivenSortedAnswers ==
  AnswersSorted => SortedByStart(allSegments)

\* C5 amended: with every chunk's result non-decreasing in start, every
\* start within 0 .. the chunk's probed duration, and every loaded artifact
\* written by a run over the same chunks, the Transcript is non-decreasing
\* in start in every state of the iteration and at Finalize.
C5_SortedWithinChunks ==
  (AnswersSorted /\ StartsWithinChunk /\ HitsAreOwn) => SortedByStart(allSegments)

\* A finished run over two chunks, the first with two segments.
C5_Witness ==
  /\ pc = "done"
  /\ i = 2
  /\ AnswersSorted /\ StartsWithinChunk /\ HitsAreOwn
  /\ Len(Answer(service, 0)) = 2
  /\ Len(allSegments) = 3
  /\ allSegments[3].start > allSegments[2].start

\* ------------------------------------------------------------------ C6

\* The first index without a chunk file.
FirstMissing ==
  CHOOSE n \in 0 .. MaxChunks :
    n \notin chunkFiles /\ \A m \in 0 .. (n - 1) : m \in chunkFiles

\* C6: when the loop has found index n without a chunk file, n is the
\* first such index, every lower index was probed and looked up, nothing
\* at index n or above was probed, looked up, transcribed or saved (nor an
\* index above n even checked), the loop is over, and the Transcript is
\* the concatenation, in index order, of what was obtained for the chunks
\* 0 .. n-1.
C6_StopsAtFirstMissing ==
  \A n \in Entries :
    (Alive /\ log[n].op = "stat" /\ log[n].res = "missing") =>
      /\ log[n].k = FirstMissing
      /\ i = log[n].k
      /\ \A m \in (n + 1) .. Len(log) : log[m].op = "write"
      /\ \A m \in 1 .. (n - 1) :
           /\ log[m].op \in {"mkdir", "split", "stat", "probe", "read", "transcribe", "save"}
           /\ log[m].k < log[n].k
      /\ \A k \in 0 .. (log[n].k - 1) :
           /\ Has("stat", k, "ok") /\ Has("probe", k, "ok")
           /\ obtained[k] \in {"hit", "live", "failed"}
      /\ \A k \in Chunks : k >= log[n].k => obtained[k] = "none"
      /\ allSegments = Flatten(log[n].k)
      /\ pc \in {"json", "txt", "ts", "done", "exit"}

\* Chunks 0 and 1 exist, chunk 2 does not: the run ends with both chunks'
\* segments.
C6_Witness ==
  /\ pc = "done"
  /\ chunkFiles = {0, 1}
  /\ Has("stat", 2, "missing")
  /\ NoFailure
  /\ Len(allSegments) >= 2
  /\ allSegments = Contribution(0) \o Contribution(1)

\* ------------------------------------------------------------------ C7

Rendered(name) ==
  CASE name = "json" -> [kind |-> "json", body |-> allSegments]
    [] name = "txt" -> [kind |-> "text", body |-> TextLines(allSegments)]
    [] name = "ts" -> [kind |-> "text", body |-> StampedLines(allSegments)]

\* C7: after the probe of chunk k failed the loop is over: chunk k was not
\* looked up or transcribed and adds nothing, nothing follows but the
\* three writes, the Transcript is what chunks 0 .. k-1 gave, every file
\* written holds that Transcript, and the run ends with all three files
\* written unless a write itself fails (or the process is interrupted).
C7_ProbeFailureSoftStop ==
  \A n \in Entries :
    (Alive /\ log[n].op = "probe" /\ log[n].res = "fail") =>
      /\ i = log[n].k
      /\ \A m \in Entries : m > n => log[m].op = "write"
      /\ \A m \in Entries :
           log[m].op \in {"read", "transcribe", "save"} => log[m].k < log[n].k
      /\ allSegments = Flatten(log[n].k)
      /\ \/ pc \in {"json", "txt", "ts", "done"}
         \/ pc = "exit" /\ log[Len(log)].op = "write" /\ log[Len(log)].res = "fail"
      /\ \A f \in OutputNames :
           written[f] \notin {NoFile, Garbage} => written[f] = Rendered(f)
      /\ pc = "done" => \A f \in OutputNames : written[f] = Rendered(f)

\* The probe of chunk 1 failed although chunk 1 has a valid artifact; the
\* run finished with chunk 0's segments in all three files.
C7_Witness ==
  /\ pc = "done"
  /\ Has("probe", 1, "fail")
  /\ UnmarshalOk(cache[1])
  /\ Len(allSegments) >= 1
  /\ \A f \in OutputNames : written[f] = Rendered(f)

\* ------------------------------------------------------------------ C8

\* The offset that was in effect when chunk k's artifact was looked up.
OffsetAtRead(k) ==
  LET n == CHOOSE m \in Entries : log[m].op = "read" /\ log[m].k = k
  IN  log[n].arg

\* C8: when the write of chunk k's artifact failed, the closure still
\* returns the shifted segments without an error, they are what the
\* Transcript receives for chunk k, the offset goes up by chunk k's
\* duration and the next thing the process does is check index k + 1.
C8_CacheWriteFailureRecoverable ==
  \A n \in Entries :
    (Alive /\ log[n].op = "save" /\ log[n].res = "fail") =>
      LET k == log[n].k
      IN  /\ i >= k
          /\ i = k => (pc = "append" /\ err = FALSE /\ segments = ShiftedAnswer(k))
          /\ i > k => Slice(k) = ShiftedAnswer(k)
          /\ (i = k + 1 /\ pc = "stat") => offset = OffsetAtRead(k) + durOf[k]
          /\ n < Len(log) => (log[n + 1].op = "stat" /\ log[n + 1].k = k + 1)
          /\ n = Len(log) => pc \in {"append", "stat"}

\* The write of chunk 0's artifact failed; chunk 1 was then transcribed
\* at offset 600.0 s and the run finished.
C8_Witness ==
  /\ pc = "done"
  /\ Has("save", 0, "fail")
  /\ durOf[0] = 600000
  /\ \E n \in Entries :
       log[n].op = "transcribe" /\ log[n].k = 1 /\ log[n].res = "ok" /\ log[n].arg = 600000
  /\ Len(allSegments) >= 2

\* ------------------------------------------------------------------ C9

\* C9: after a lookup that found no artifact, or one that does not parse,
\* the next step is the service call for that chunk with the same offset;
\* after a successful call the closure holds the answer shifted by that
\* offset and the next step is the write; after a successful write the
\* artifact is the JSON of the shifted segments; and the chunk's segments
\* reach the Transcript only after the write was attempted.
C9_CacheMiss ==
  \A n \in Entries :
    (Alive /\ log[n].op = "read" /\ log[n].res \in {"absent", "unparsable"}) =>
      LET k == log[n].k
          called == n < Len(log)
          ok == called /\ log[n + 1].res = "ok"
          tried == n + 1 < Len(log)
      IN  /\ ~called => (pc = "transcribe" /\ i = k)
          /\ called =>
               /\ log[n + 1].op = "transcribe" /\ log[n + 1].k = k
               /\ log[n + 1].arg = log[n].arg
               /\ i = k => log[n].arg = offset
          /\ (ok /\ ~tried) =>
               /\ pc = "save" /\ i = k
               /\ segments = ShiftedAnswer(k)
               /\ Len(allSegments) = SizeBefore(k)
          /\ (ok /\ tried) => (log[n + 2].op = "save" /\ log[n + 2].k = k)
          /\ (ok /\ tried /\ log[n + 2].res = "ok") =>
               cache[k] = [kind |-> "json", body |-> ShiftedAnswer(k)]
          /\ (ok /\ i > k) => (tried /\ Slice(k) = ShiftedAnswer(k))

\* Chunk 1's artifact did not parse; the service was called at offset
\* 600.0 s, the artifact was replaced and the segments were appended.
C9_Witness ==
  /\ Alive
  /\ i = 2
  /\ \E n \in Entries :
       log[n].op = "read" /\ log[n].k = 1 /\ log[n].res = "unparsable" /\ log[n].arg = 600000
  /\ Has("save", 1, "ok")
  /\ cache[1] = [kind |-> "json", body |-> ShiftedAnswer(1)]
  /\ Len(Slice(1)) >= 1

\* ----------------------------------------------------------------- C10

\* The offset that was passed to the service call for chunk k.
BaseOffset(k) ==
  LET n == CHOOSE m \in Entries : log[m].op = "transcribe" /\ log[m].k = k
  IN  log[n].arg

\* C10: the segments of a chunk transcribed live are in the Transcript one
\* for one, start and end each larger by the chunk's base offset, the text
\* as the service gave it.
C10_TimestampShift ==
  \A k \in Chunks :
    (Alive /\ obtained[k] = "live" /\ i > k) =>
      LET answer == Answer(service, k)
          part == Slice(k)
          base == BaseOffset(k)
      IN  /\ Has("transcribe", k, "ok")
          /\ Len(part) = Len(answer)
          /\ \A j \in 1 .. Len(answer) :
               /\ part[j].start = answer[j].start + base
               /\ part[j].end = answer[j].end + base
               /\ part[j].text = answer[j].text

\* The end-to-end scenario: durations 600.0 s and 45.3 s, answers
\* [{0,5,hello}] and [{0,3,world}], both live.
C10_Witness ==
  /\ pc = "done"
  /\ durOf = (0 :> 600000 @@ 1 :> 45300)
  /\ Has("transcribe", 0, "ok") /\ Has("transcribe", 1, "ok")
  /\ allSegments = << Seg(0, 5000, << "hello" >>), Seg(600000, 603000, << "world" >>) >>
  /\ written["ts"].body[2] =
       [from |-> [hh |-> << 0, 0 >>, mm |-> << 1, 0 >>, ss |-> << 0, 0 >>],
        to |-> [hh |-> << 0, 0 >>, mm |-> << 1, 0 >>, ss |-> << 0, 3 >>],
        text |-> << "world" >>]

\* ----------------------------------------------------------------- C11

\* Within a run the service is called at most once per chunk, and every
\* call follows directly on a lookup of that chunk that found no artifact
\* or one that does not parse; while the call is pending the chunk has no
\* valid artifact.
OncePerUncachedChunk ==
  /\ \A n, m \in Entries :
       (n < m /\ log[n].op = "transcribe" /\ log[m].op = "transcribe") =>
         log[n].k # log[m].k
  /\ \A n \in Entries :
       log[n].op = "transcribe" =>
         /\ n > 1
         /\ log[n - 1].op = "read" /\ log[n - 1].k = log[n].k
         /\ log[n - 1].res \in {"absent", "unparsable"}
  /\ (Alive /\ pc = "transcribe") => ~UnmarshalOk(cache[i])
  /\ \A k \in Chunks : obtained[k] = "hit" => ~Has("transcribe", k, "ok")

\* C11: within one run the service is called at most once per chunk and
\* only for chunks without a valid artifact, and once a call has failed
\* the service is not called again in that run.
C11_SingleShotUncachedOnly ==
  /\ OncePerUncachedChunk
  /\ \A n, m \in Entries :
       (n < m /\ log[n].op = "transcribe" /\ log[n].res = "fail") =>
         log[m].op # "transcribe"

\* ----------------------------------------------------------------- C12

\* Every step on a chunk follows a step on the same chunk, except the
\* existence check, which follows the steps of the chunk one below (the
\* split before chunk 0); and the Transcript is the concatenation, in
\* index order, of what was obtained for the chunks below i.
InIndexOrder ==
  /\ \A n \in Entries :
       log[n].k >= 0 =>
         /\ n > 1
         /\ log[n - 1].k = (IF log[n].op = "stat" THEN log[n].k - 1 ELSE log[n].k)
         /\ log[n].op = "stat" => log[n - 1].op # "stat"
  /\ Alive => allSegments = Flatten(i)
  /\ \A k \in Chunks : (Alive /\ k > i) => obtained[k] = "none"

\* Within a run the loop index stays or goes up by one and the Transcript
\* keeps what it holds, new segments coming after it.
GrowsByAppend ==
  (run' = run /\ pc' # "killed") =>
    /\ i' \in {i, i + 1}
    /\ Len(allSegments') >= Len(allSegments)
    /\ SubSeq(allSegments', 1, Len(allSegments)) = allSegments
    /\ i' = i => allSegments' = allSegments

\* C12: chunks are processed one at a time in the order 0, 1, 2, ...
\* without gap or repeat, the Transcript is the concatenation of the
\* per-chunk lists in that order, each list in the order obtained, and the
\* Transcript only grows at its end.
C12_StrictSequentialOrder ==
  [] InIndexOrder /\ [][GrowsByAppend]_vars

\* Both chunks were transcribed live; chunk 0's two segments came out of
\* start order and stand in the Transcript as returned, before chunk 1's.
C12_Witness ==
  /\ pc = "done"
  /\ i = 2
  /\ obtained = [k \in Chunks |-> "live"]
  /\ Len(Contribution(0)) = 2
  /\ Contribution(0)[1].start > Contribution(0)[2].start
  /\ allSegments = Contribution(0) \o Contribution(1)

\* ----------------------------------------------------------------- C13

\* The number a digit sequence prints.
RECURSIVE Value(_)
Value(ds) ==
  IF ds = << >> THEN 0 ELSE 10 * Value(SubSeq(ds, 1, Len(ds) - 1)) + ds[Len(ds)]

Stamp(hh, mm, ss) == [hh |-> hh, mm |-> mm, ss |-> ss]

\* st is HH:MM:SS for t: two digits each (more for 100 hours and above),
\* minutes and seconds below 60, and the time printed is the last whole
\* second not after t.
IsStampOf(st, t) ==
  LET whole == (Value(st.hh) * 60 + Value(st.mm)) * 60 + Value(st.ss)
  IN  /\ \A part \in {st.hh, st.mm, st.ss} : \A j \in 1 .. Len(part) : part[j] \in 0 .. 9
      /\ Len(st.mm) = 2 /\ Len(st.ss) = 2
      /\ Len(st.hh) >= 2 /\ (Len(st.hh) > 2 => st.hh[1] # 0)
      /\ Value(st.mm) < 60 /\ Value(st.ss) < 60
      /\ whole * TicksPerSecond <= t
      /\ t < (whole + 1) * TicksPerSecond

\* C13: the from and to printed for a segment are HH:MM:SS of its start
\* and end with the fraction cut off, never rounded; 3725.9 s prints as
\* 01:02:05, 0 s as 00:00:00 and 59.999 s as 00:00:59.
C13_TimestampFormat ==
  (pc = "done" /\ Len(allSegments) = 1 /\ Len(allSegments[1].text) = 1) =>
    LET seg == allSegments[1]
        line == written["ts"].body[1]
    IN  /\ Len(written["ts"].body) = 1
        /\ IsStampOf(line.from, seg.start)
        /\ IsStampOf(line.to, seg.end)
        /\ seg.start = 3725900 => line.from = Stamp(<< 0, 1 >>, << 0, 2 >>, << 0, 5 >>)
        /\ seg.start = 0 => line.from = Stamp(<< 0, 0 >>, << 0, 0 >>, << 0, 0 >>)
        /\ seg.start = 59999 => line.from = Stamp(<< 0, 0 >>, << 0, 0 >>, << 5, 9 >>)

\* The segment that starts at 3725.9 s was written as 01:02:05 - 01:02:07.
C13_Witness ==
  /\ pc = "done"
  /\ allSegments[1].start = 3725900
  /\ written["ts"].body[1].from = Stamp(<< 0, 1 >>, << 0, 2 >>, << 0, 5 >>)
  /\ written["ts"].body[1].to = Stamp(<< 0, 1 >>, << 0, 2 >>, << 0, 7 >>)

\* ----------------------------------------------------------------- C14

\* The file was written in full by this run.
Complete(name) == written[name] \notin {NoFile, Garbage}

\* Every output file this run wrote holds the Transcript one for one: the
\* structured file its segments, the text files one line per segment, in
\* Transcript order.
OneForOne ==
  /\ Complete("json") => written["json"].body = allSegments
  /\ Complete("txt") =>
       /\ Len(written["txt"].body) = Len(allSegments)
       /\ \A j \in 1 .. Len(allSegments) :
            written["txt"].body[j] = allSegments[j].text
  /\ Complete("ts") =>
       /\ Len(written["ts"].body) = Len(allSegments)
       /\ \A j \in 1 .. Len(allSegments) :
            /\ written["ts"].body[j].text = allSegments[j].text
            /\ written["ts"].body[j].from = formatTimestamp(allSegments[j].start)
            /\ written["ts"].body[j].to = formatTimestamp(allSegments[j].end)

\* No segment of the Transcript has a line break in its text.
NoLineBreaks ==
  \A j \in 1 .. Len(allSegments) :
    \A p \in 1 .. Len(allSegments[j].text) : allSegments[j].text[p] # "\n"

\* Without a line break in any text the files do hold the Transcript one
\* for one.
OneForOneWithoutLineBreaks == (Alive /\ NoLineBreaks) => OneForOne

\* C14: whatever the Transcript, each of the three files holds it without
\* reordering or filtering, the text files with exactly one line per
\* segment.
C14_OneLinePerSegment == Alive => OneForOne

\* ----------------------------------------------------------------- C15

\* The order in which main writes the three files.
WriteOrder == << "json", "txt", "ts" >>

\* The number of writes this run attempted before its n-th operation.
WritesBefore(n) == Cardinality({m \in 1 .. (n - 1) : log[m].op = "write"})

\* C15: the writes come in the order structured, plain text, timestamped,
\* each after the one before succeeded; a failed write is the last thing
\* the run does: the process has stopped, the files before it in the order
\* hold the Transcript and the files after it were not written.
C15_RenderFailureStops ==
  \A n \in Entries :
    log[n].op = "write" =>
      LET before == WritesBefore(n)
      IN  /\ before < 3
          /\ \A m \in 1 .. (n - 1) : log[m].op = "write" => log[m].res # "fail"
          /\ log[n].res # "fail" => log[n].res = WriteOrder[before + 1]
          /\ n < Len(log) => log[n + 1].op = "write"
          /\ log[n].res = "fail" =>
               /\ n = Len(log)
               /\ pc = "exit"
               /\ \A j \in 1 .. 3 :
                    /\ j <= before => written[WriteOrder[j]] = Rendered(WriteOrder[j])
                    /\ j = before + 1 => ~Complete(WriteOrder[j])
                    /\ j > before + 1 => written[WriteOrder[j]] = NoFile

\* The write of transcription.txt failed after transcription.json was
\* written; the timestamped file was not written.
C15_Witness ==
  /\ pc = "exit"
  /\ Len(log) > 2
  /\ log[Len(log)] = Op("write", -1, "fail", 0)
  /\ log[Len(log) - 1] = Op("write", -1, "json", 0)
  /\ Len(allSegments) >= 1
  /\ written["json"] = Marshal(allSegments)
  /\ written["ts"] = NoFile

\* ----------------------------------------------------------------- C16

\* C16: a failed split is the last thing the run does: the process has
\* stopped, before it only the output directory was made, no chunk was
\* checked, probed, looked up or transcribed, no artifact was written, the
\* Transcript is empty and none of the three files was written.
C16_SplitFailureIsFatal ==
  \A n \in Entries :
    (log[n].op = "split" /\ log[n].res = "fail") =>
      /\ n = Len(log)
      /\ \A m \in 1 .. (n - 1) : log[m].op = "mkdir"
      /\ pc = "exit"
      /\ i = 0 /\ allSegments = << >>
      /\ \A k \in Chunks : obtained[k] = "none"
      /\ \A f \in OutputNames : written[f] = NoFile

\* The split failed in a second run, with both chunk files and a valid
\* artifact of chunk 0 left by the first run.
C16_Witness ==
  /\ run = 2
  /\ pc = "exit"
  /\ Has("split", -1, "fail")
  /\ chunkFiles = {0, 1}
  /\ 0 \in own /\ UnmarshalOk(cache[0])

\* ----------------------------------------------------------------- C17

\* C17: with no input file given by flag or configuration the process is
\* at the test of line 41 or has stopped; it has made no directory, run
\* no split, probe, lookup or call, the Transcript is empty and no output
\* file was written. The process stops by log.Fatal only in this case.
C17_NoInputStopsBeforeWork ==
  /\ (Alive /\ pc # "load" /\ inputFile = "") =>
       /\ pc \in {"checkInput", "fatal", "exit"}
       /\ log = << >>
       /\ i = 0 /\ allSegments = << >>
       /\ \A k \in Chunks : obtained[k] = "none"
       /\ \A f \in OutputNames : written[f] = NoFile
  /\ pc = "fatal" => inputFile = ""

\* A second run was started without an input file, over the chunk files
\* the first run left.
C17_Witness ==
  /\ run = 2
  /\ pc = "fatal"
  /\ inputFile = ""
  /\ chunkFiles # {}
  /\ log = << >>

\* ----------------------------------------------------------------- C18

\* A step changes chunk k's artifact only at the save of iteration k,
\* directly after the service call for chunk k succeeded; the closure then
\* holds the shifted answer, the artifact becomes its JSON (or is left
\* incomplete by a failed or interrupted write), and the closure's list
\* goes on unchanged to the append.
ArtifactOnlyAfterCall ==
  \A k \in Chunks :
    cache'[k] # cache[k] =>
      /\ pc = "save" /\ i = k
      /\ obtained[k] = "live"
      /\ Len(log) > 0 /\ log[Len(log)] = Op("transcribe", k, "ok", offset)
      /\ segments = ShiftedAnswer(k)
      /\ cache'[k] \in {Marshal(segments), Garbage}
      /\ pc' = "append" => segments' = segments

\* After the artifact of chunk k was written it is the JSON of the list
\* the iteration appends to the Transcript.
SavedIsAppended ==
  \A k \in Chunks :
    (Alive /\ Has("save", k, "ok")) =>
      /\ cache[k] = Marshal(ShiftedAnswer(k))
      /\ i = k => (pc = "append" /\ segments = cache[k].body)
      /\ i > k => Slice(k) = cache[k].body

\* C18: an artifact is created or replaced only after a successful service
\* call for its chunk, with the shifted list the same iteration appends; a
\* failed call leaves the artifacts as they are.
C18_ArtifactAfterSuccessfulCall ==
  [] SavedIsAppended /\ [][ArtifactOnlyAfterCall]_vars

\* The call for chunk 0 failed and left no artifact; chunk 1 was then
\* transcribed, saved and appended.
C18_Witness ==
  /\ Alive
  /\ i = 2
  /\ obtained[0] = "failed" /\ cache[0] = NoFile
  /\ Has("save", 1, "ok")
  /\ cache[1] = Marshal(ShiftedAnswer(1))
  /\ allSegments = cache[1].body
  /\ Len(allSegments) >= 1

\* ----------------------------------------------------------------- C19

\* No step changes or removes an artifact that parses.
ValidArtifactsStay ==
  \A k \in Chunks : UnmarshalOk(cache[k]) => cache'[k] = cache[k]

\* C19: whatever a run does and however it ends, an artifact that parses
\* as a segment list is neither overwritten nor deleted.
C19_ValidArtifactsWriteOnce == [][ValidArtifactsStay]_vars

\* A second run loaded chunk 0 from the first run's artifact, failed on
\* chunk 1 and ended; chunk 0's artifact is as the first run wrote it.
C19_Witness ==
  /\ run = 2
  /\ ~Running /\ Alive
  /\ obtained[0] = "hit" /\ 0 \in own
  /\ obtained[1] = "failed"
  /\ cache[0] = Marshal(ShiftedAnswer(0))

\* ----------------------------------------------------------------- C20

\* The process is over.
Ended == pc \in {"done", "exit", "fatal"}

\* The existence checks of this run.
StatChecks == {n \in Entries : log[n].op = "stat"}

\* No index is checked twice, the checks are at most one more than the
\* chunk files 0 .. N-1 present, and a process that is over has either
\* attempted the rendering or stopped on an error before the loop.
ChecksBounded ==
  /\ \A n, m \in StatChecks : n < m => log[n].k < log[m].k
  /\ Cardinality(StatChecks) <= FirstMissing + 1
  /\ Ended =>
       \/ pc = "done" /\ log[Len(log)] = Op("write", -1, "ts", 0)
       \/ pc = "exit" /\ log # << >> /\ log[Len(log)].res = "fail"
                      /\ log[Len(log)].op \in {"write", "split", "mkdir"}
       \/ pc \in {"exit", "fatal"} /\ log = << >>

\* C20: a run in which every call returns ends, after rendering was
\* attempted or by an error exit, having checked at most N + 1 indices and
\* none of them twice.
C20_EveryRunTerminates == [] ChecksBounded /\ <> Ended

\* Both chunk files exist: the run made three existence checks and ended
\* after the third output file.
C20_Witness ==
  /\ pc = "done"
  /\ chunkFiles = {0, 1}
  /\ Cardinality(StatChecks) = 3
  /\ Has("stat", 2, "missing")

====
